---------------------------- MODULE Spec2Model ----------------------------
(***************************************************************************)
(* A model of the user-namespace root remapping code of the daemon:        *)
(*   - pkg/idtools: the IDMap table, the two translations, GetRootUIDGID   *)
(*     and CreateIDMapsForRoot;                                            *)
(*   - daemon: parseRemappedRoot, setupRemappedRoot, setupDaemonRoot and   *)
(*     verifyExperimentalContainerSettings;                                *)
(*   - pkg/directory: MoveDirToSubdir.                                     *)
(*                                                                         *)
(* Ids are Go ints (64 bit on the supported platform), so no arithmetic of *)
(* the model wraps; the 32-bit limits of the id space (math.MaxInt32 in    *)
(* the code, MAXUINT32 in the specification) are scaled down from 32 to    *)
(* IdBits bits so that every id of the space can be enumerated.            *)
(***************************************************************************)
EXTENDS Integers, Sequences, FiniteSets, TLC

VARIABLES
    uidMaps,      \* the uid table in play (a Go slice: nil, or a sequence of IDMap)
    gidMaps,      \* the gid table in play
    created,      \* the last CreateIDMapsForRoot call: [called, uid, gid, err]
    xlate,        \* the last translation call: [op, which, arg, val, err]
    config,       \* the daemon's Config: [RemappedRoot, ExecDriver]
    goos,         \* runtime.GOOS of the build
    passwd,       \* /etc/passwd as user.LookupUser reads it: name -> uid
    group,        \* /etc/group as user.LookupGroup reads it: name -> gid
    setup,        \* the last setupRemappedRoot call: [called, err, parsed]
    verify,       \* the last verifyExperimentalContainerSettings call
    rootDir,      \* the daemon root on disk: [exists, mode, top, sub]
    configRoot,   \* config.Root, the effective root (the name under rootDir)
    ensure,       \* the last setupDaemonRoot call
    prior,        \* the call before it: [ok, remap, tree, root, anyOk]
    child,        \* the docker-applyLayer child process
    parent,       \* the ApplyLayer call of the parent process
    drv,          \* the world of the Driver: DeviceSet, device file systems, home/mnt
    last,         \* the last Driver operation that returned
    hist,         \* the number of operations so far, and the Get/Put history of each id
    procs,        \* the callers that use the Driver concurrently, one per id
    start         \* the world those callers started in

idVars == <<uidMaps, gidMaps, created, xlate>>

cfgVars == <<config, goos, passwd, group, setup, verify>>

rootVars == <<rootDir, configRoot, ensure, prior>>

applyVars == <<child, parent>>

drvVars == <<drv, last, hist, procs, start>>

vars == <<idVars, cfgVars, rootVars, applyVars, drvVars>>

-----------------------------------------------------------------------------
(* Bounds *)

\* width of the id space in bits (32 in the program)
IdBits == 3

\* largest ContainerID / HostID of an arbitrary table's range
MaxField == 1

\* most ranges of an arbitrary table
MaxRanges == 2

\* most characters of the --root option
MaxSpecLen == 3

\* most daemon starts on one root directory
MaxStarts == 3

\* largest layer size the unpack step reports
MaxLayerSize == 2

\* most Driver operations called one after the other
MaxOps == 3

-----------------------------------------------------------------------------
(* pkg/idtools *)

\* math.MaxInt32, at the model's width
MaxInt32 == 2^(IdBits - 1) - 1

\* the largest unsigned id of the id space (uid_t), at the model's width
MAXUINT32 == 2^IdBits - 1

\* type IDMap struct
IDMap(c, h, s) == [ContainerID |-> c, HostID |-> h, Size |-> s]

\* a Go slice of IDMap: nil, or a (possibly empty) sequence
NilMap == [isNil |-> TRUE, elems |-> <<>>]
MkSlice(s) == [isNil |-> FALSE, elems |-> s]
EmptyMap == MkSlice(<<>>)

\* the (value, error) pair a translation returns
Ok(v) == [val |-> v, err |-> FALSE]
Unmappable == [val |-> -1, err |-> TRUE]

\* the loop of TranslateIDToHost, from range i on
RECURSIVE ScanToHost(_, _, _)
ScanToHost(contID, elems, i) ==
    IF i > Len(elems) THEN Unmappable
    ELSE LET m == elems[i] IN
         IF (contID >= m.ContainerID) /\ (contID <= (m.ContainerID + m.Size - 1))
         THEN Ok(m.HostID + (contID - m.ContainerID))
         ELSE ScanToHost(contID, elems, i + 1)

\* a translation that returns its input when no range matches
TranslateIDToHostFallback(contID, idMap) ==
    LET r == ScanToHost(contID, idMap.elems, 1) IN
    IF idMap.isNil \/ r.err THEN Ok(contID) ELSE r

TranslateIDToHost(contID, idMap) ==
    IF idMap.isNil THEN Ok(contID)
    ELSE ScanToHost(contID, idMap.elems, 1)

\* the loop of TranslateIDToContainer, from range i on
RECURSIVE ScanToContainer(_, _, _)
ScanToContainer(hostID, elems, i) ==
    IF i > Len(elems) THEN Unmappable
    ELSE LET m == elems[i] IN
         IF (hostID >= m.HostID) /\ (hostID <= (m.HostID + m.Size - 1))
         THEN Ok(m.ContainerID + (hostID - m.HostID))
         ELSE ScanToContainer(hostID, elems, i + 1)

\* a translation to the container that scans the container axis
TranslateIDToContainerWrongAxis(hostID, idMap) ==
    IF idMap.isNil THEN Ok(hostID)
    ELSE ScanToHost(hostID, idMap.elems, 1)

TranslateIDToContainer(hostID, idMap) ==
    IF idMap.isNil THEN Ok(hostID)
    ELSE ScanToContainer(hostID, idMap.elems, 1)

\* GetRootUIDGID: (uid, gid, err)
GetRootUIDGID(uidMap, gidMap) ==
    LET xUID == TranslateIDToHost(0, uidMap)
        xGID == TranslateIDToHost(0, gidMap)
    IN  IF ~uidMap.isNil /\ xUID.err THEN [uid |-> -1, gid |-> -1, err |-> TRUE]
        ELSE IF ~gidMap.isNil /\ xGID.err THEN [uid |-> -1, gid |-> -1, err |-> TRUE]
        ELSE [uid |-> IF uidMap.isNil THEN 0 ELSE xUID.val,
              gid |-> IF gidMap.isNil THEN 0 ELSE xGID.val,
              err |-> FALSE]

\* a table whose low identity range also covers id
createIDMapOverlap(id) ==
    MkSlice(<< IDMap(0, id, 1),
               IDMap(1, 1, id),
               IDMap(id + 1, id + 1, MaxInt32 - id) >>)

\* a table whose last range stops one id short of math.MaxInt32
createIDMapShort(id) ==
    MkSlice(<< IDMap(0, id, 1),
               IDMap(1, 1, id - 1),
               IDMap(id + 1, id + 1, MaxInt32 - id - 1) >>)

createIDMap(id) ==
    MkSlice(<< IDMap(0, id, 1),
               IDMap(1, 1, id - 1),
               IDMap(id + 1, id + 1, MaxInt32 - id) >>)

\* a range check that rejects only when both ids are out of range
CreateIDMapsForRootBothInvalid(uid, gid) ==
    IF uid < 1 /\ gid < 1
    THEN [uidMaps |-> NilMap, gidMaps |-> NilMap, err |-> TRUE]
    ELSE [uidMaps |-> createIDMap(uid), gidMaps |-> createIDMap(gid), err |-> FALSE]

CreateIDMapsForRoot(uid, gid) ==
    IF uid < 1 \/ gid < 1
    THEN [uidMaps |-> NilMap, gidMaps |-> NilMap, err |-> TRUE]
    ELSE [uidMaps |-> createIDMap(uid), gidMaps |-> createIDMap(gid), err |-> FALSE]

-----------------------------------------------------------------------------
(* Calls into pkg/idtools *)

\* the ids a caller passes: below, inside and above the id space
IdInputs == -1 .. (MAXUINT32 + 1)

NotCreated == [called |-> FALSE, uid |-> 0, gid |-> 0, err |-> FALSE]
NoXlate == [op |-> "none", which |-> "uid", arg |-> 0, val |-> 0, err |-> FALSE]

TableOf(which) == IF which = "uid" THEN uidMaps ELSE gidMaps

\* the tables are built once, when the daemon starts
CreateIDMapsForRootCall ==
    \E uid \in IdInputs, gid \in IdInputs :
        LET r == CreateIDMapsForRoot(uid, gid) IN
        /\ ~created.called
        /\ uidMaps' = r.uidMaps
        /\ gidMaps' = r.gidMaps
        /\ created' = [called |-> TRUE, uid |-> uid, gid |-> gid, err |-> r.err]
        /\ xlate' = NoXlate
        /\ UNCHANGED <<cfgVars, rootVars, applyVars, drvVars>>

TranslateIDToHostCall(ids) ==
    \E c \in ids, which \in {"uid", "gid"} :
        LET r == TranslateIDToHost(c, TableOf(which)) IN
        /\ xlate' = [op |-> "toHost", which |-> which, arg |-> c,
                     val |-> r.val, err |-> r.err]
        /\ UNCHANGED <<uidMaps, gidMaps, created, cfgVars, rootVars, applyVars, drvVars>>

TranslateIDToContainerCall(ids) ==
    \E h \in ids, which \in {"uid", "gid"} :
        LET r == TranslateIDToContainer(h, TableOf(which)) IN
        /\ xlate' = [op |-> "toContainer", which |-> which, arg |-> h,
                     val |-> r.val, err |-> r.err]
        /\ UNCHANGED <<uidMaps, gidMaps, created, cfgVars, rootVars, applyVars, drvVars>>

\* a round trip: to the host and, when that succeeded, back
RoundTripCall(ids) ==
    \E c \in ids, which \in {"uid", "gid"} :
        LET h == TranslateIDToHost(c, TableOf(which))
            b == TranslateIDToContainer(h.val, TableOf(which))
        IN  /\ ~h.err
            /\ xlate' = [op |-> "roundTrip", which |-> which, arg |-> c,
                         val |-> b.val, err |-> b.err]
            /\ UNCHANGED <<uidMaps, gidMaps, created, cfgVars, rootVars, applyVars, drvVars>>

GetRootUIDGIDCall ==
    LET r == GetRootUIDGID(uidMaps, gidMaps) IN
    /\ xlate' = [op |-> "root", which |-> "uid", arg |-> r.gid,
                 val |-> r.uid, err |-> r.err]
    /\ UNCHANGED <<uidMaps, gidMaps, created, cfgVars, rootVars, applyVars, drvVars>>

-----------------------------------------------------------------------------
(* daemon/graphdriver/devmapper: the state of the Driver *)

\* the device ids of the model
Ids == { "x", "y" }

\* a directory: whether it exists, and its owner
NoDir == [exists |-> FALSE, uid |-> 0, gid |-> 0]
DirOf(uid, gid) == [exists |-> TRUE, uid |-> uid, gid |-> gid]

\* a file: whether it exists, and its content
NoFile == [exists |-> FALSE, data |-> ""]
FileOf(data) == [exists |-> TRUE, data |-> data]

\* the DeviceSet call counters of one id
NoCalls == [mount |-> 0, unmount |-> 0, delete |-> 0]

\* the world a Driver acts on: the DeviceSet (its devices, the active mounts
\* of each and the calls made to it), the file system of each device (the
\* rootfs directory and the id file at its root), and the directories
\* home/mnt and home/mnt/<id>
NoWorld ==
    [devices |-> {},
     active |-> [i \in Ids |-> 0],
     calls |-> [i \in Ids |-> NoCalls],
     rootfs |-> [i \in Ids |-> NoDir],
     idFile |-> [i \in Ids |-> NoFile],
     mnt |-> NoDir,
     mp |-> [i \in Ids |-> NoDir],
     down |-> FALSE,
     homeMounted |-> TRUE]

\* a failure the host injects into one operation: the call that fails, and
\* whether the UnmountDevice that cleans up after it fails too
NoFail == [at |-> "none", umount |-> FALSE]
FailAt(call, umount) == [at |-> call, umount |-> umount]

\* an operation in progress: pc is the call it makes next
Proc(id, op, fail) ==
    [id |-> id, op |-> op, pc |-> "start", fail |-> fail, uid |-> 0, gid |-> 0,
     seen |-> FALSE, err |-> "", path |-> <<>>, log |-> <<>>]

Done(p, err) == [p EXCEPT !.pc = "done", !.err = err]

Result(w, p) == [w |-> w, p |-> p]

Logged(p, call) == [p EXCEPT !.log = Append(p.log, call)]

\* the last operation that returned, and the world it started in
NoLast ==
    [op |-> "none", id |-> "", fail |-> NoFail, err |-> "", path |-> <<>>, log |-> <<>>,
     before |-> NoWorld]

\* the history before any operation
NoHist == [nops |-> 0, pairs |-> [i \in Ids |-> "pairs"]]

\* no caller uses the Driver concurrently
NoProcs == [i \in Ids |-> [prog |-> <<>>, k |-> 1, p |-> Done(Proc(i, "none", NoFail), ""),
                           results |-> <<>>]]

\* no Driver was constructed
IdleDriver ==
    /\ drv = NoWorld
    /\ last = NoLast
    /\ hist = NoHist
    /\ procs = NoProcs
    /\ start = NoWorld

-----------------------------------------------------------------------------
(* Idle parts *)

\* the configuration of a daemon that was not asked to remap
IdleConfig ==
    /\ config = [RemappedRoot |-> <<>>, ExecDriver |-> "native"]
    /\ goos = "linux"
    /\ passwd = [n \in {} |-> 0]
    /\ group = [n \in {} |-> 0]
    /\ setup = [called |-> FALSE, err |-> "",
                parsed |-> [userId |-> 0, groupId |-> 0, err |-> "not called",
                            quoted |-> <<>>, lookups |-> <<>>]]
    /\ verify = [called |-> FALSE, privileged |-> FALSE, err |-> ""]

\* no daemon root was set up
IdleRoot ==
    LET none == [exists |-> FALSE, mode |-> "", top |-> [n \in {} |-> 0],
                 sub |-> [n \in {} |-> 0]]
    IN  /\ rootDir = none
        /\ configRoot = <<>>
        /\ ensure = [called |-> FALSE, starts |-> 0, remap |-> <<>>, uid |-> 0, gid |-> 0,
                     err |-> "", moves |-> 0, before |-> none]
        /\ prior = [ok |-> FALSE, remap |-> <<>>, tree |-> none, root |-> <<>>,
                    anyOk |-> FALSE]

\* no layer is being applied
IdleApply ==
    /\ child = [pc |-> "none", by |-> "", opt |-> "", arg |-> <<>>, options |-> "none",
                root |-> <<"/">>, umask |-> "inherited", tmpDir |-> "none",
                unpack |-> <<>>, size |-> 0, unpackErr |-> FALSE,
                stdout |-> <<>>, stderr |-> <<>>, exit |-> -1]
    /\ parent = [pc |-> "idle", dest |-> <<>>, spawned |-> 0, size |-> 0, err |-> "",
                 text |-> <<>>]

-----------------------------------------------------------------------------
(* SpecIDs: the tables CreateIDMapsForRoot builds, and translations on them *)

InitIDs ==
    /\ uidMaps = NilMap
    /\ gidMaps = NilMap
    /\ created = NotCreated
    /\ xlate = NoXlate
    /\ IdleConfig
    /\ IdleRoot
    /\ IdleApply
    /\ IdleDriver

NextIDs ==
    \/ CreateIDMapsForRootCall
    \/ TranslateIDToHostCall(IdInputs)
    \/ TranslateIDToContainerCall(IdInputs)
    \/ RoundTripCall(IdInputs)
    \/ GetRootUIDGIDCall

SpecIDs == InitIDs /\ [][NextIDs]_vars

-----------------------------------------------------------------------------
(* SpecTable: translations on an arbitrary table *)

\* the ranges of an arbitrary table: empty ranges, ranges of one id and ranges
\* of several, mapped to the bottom or to the top of the host ids
ArbitraryRanges ==
    { IDMap(c, h, s) : c \in 0 .. MaxField, h \in {0, MaxField}, s \in {0, 1, MaxField + 1} }

RECURSIVE SeqsUpTo(_, _)
SeqsUpTo(S, n) ==
    IF n = 0 THEN { <<>> }
    ELSE LET shorter == SeqsUpTo(S, n - 1) IN
         shorter \cup { Append(q, x) : q \in { r \in shorter : Len(r) = n - 1 }, x \in S }

ArbitraryTables == { NilMap } \cup { MkSlice(q) : q \in SeqsUpTo(ArbitraryRanges, MaxRanges) }

\* the ids translated on an arbitrary table: below, inside and above its ranges
TableQueries == 0 .. (2 * MaxField + 1)

InitTable ==
    /\ uidMaps \in ArbitraryTables
    /\ gidMaps = NilMap
    /\ created = NotCreated
    /\ xlate = NoXlate
    /\ IdleConfig
    /\ IdleRoot
    /\ IdleApply
    /\ IdleDriver

NextTable ==
    \/ TranslateIDToHostCall(TableQueries)
    \/ TranslateIDToContainerCall(TableQueries)
    \/ GetRootUIDGIDCall

SpecTable == InitTable /\ [][NextTable]_vars

-----------------------------------------------------------------------------
(* daemon: the --root option *)

\* a string is a sequence of characters
Digits == {"0", "1", "2", "3", "4", "5", "6", "7", "8", "9"}

DigitValue(ch) ==
    CASE ch = "0" -> 0 [] ch = "1" -> 1 [] ch = "2" -> 2 [] ch = "3" -> 3
      [] ch = "4" -> 4 [] ch = "5" -> 5 [] ch = "6" -> 6 [] ch = "7" -> 7
      [] ch = "8" -> 8 [] ch = "9" -> 9

RECURSIVE DecimalValue(_)
DecimalValue(str) ==
    IF str = <<>> THEN 0
    ELSE 10 * DecimalValue(SubSeq(str, 1, Len(str) - 1)) + DigitValue(str[Len(str)])

AllDigits(str) == \A i \in 1 .. Len(str) : str[i] \in Digits

\* strconv.ParseInt(str, 10, 32): an optional sign, then decimal digits, the
\* value within the signed range of the id width
ParseInt(str) ==
    IF str = <<>> THEN [val |-> 0, err |-> TRUE]
    ELSE LET neg == str[1] = "-"
             body == IF str[1] \in {"+", "-"} THEN Tail(str) ELSE str
         IN  IF body = <<>> \/ ~AllDigits(body) THEN [val |-> 0, err |-> TRUE]
             ELSE LET un == DecimalValue(body) IN
                  IF ~neg /\ un >= MaxInt32 + 1 THEN [val |-> MaxInt32, err |-> TRUE]
                  ELSE IF neg /\ un > MaxInt32 + 1 THEN [val |-> -(MaxInt32 + 1), err |-> TRUE]
                  ELSE [val |-> IF neg THEN -un ELSE un, err |-> FALSE]

\* strings.Split(str, ":")
RECURSIVE Split(_)
Split(str) ==
    IF \A i \in 1 .. Len(str) : str[i] # ":" THEN << str >>
    ELSE LET k == CHOOSE i \in 1 .. Len(str) :
                      str[i] = ":" /\ \A j \in 1 .. (i - 1) : str[j] # ":"
         IN  << SubSeq(str, 1, k - 1) >> \o Split(SubSeq(str, k + 1, Len(str)))

\* user.LookupUser / user.LookupGroup: the entry of that name, or an error
Lookup(db, name) ==
    IF name \in DOMAIN db THEN [val |-> db[name], err |-> FALSE]
    ELSE [val |-> 0, err |-> TRUE]

\* what parseRemappedRoot returns: the ids, the error (its kind and the text it
\* quotes), and the lookups it made on the way
ParseOk(u, g, looked) ==
    [userId |-> u, groupId |-> g, err |-> "", quoted |-> <<>>, lookups |-> looked]
ParseErr(kind, text, looked) ==
    [userId |-> 0, groupId |-> 0, err |-> kind, quoted |-> text, lookups |-> looked]

\* lines 39-60: the user part, and the group taken from it when it stands alone
parseUserPart(idparts) ==
    LET a == idparts[1]
        uid == ParseInt(a)
    IN  IF ~uid.err
        THEN ParseOk(uid.val, IF Len(idparts) = 1 THEN uid.val ELSE 0, <<>>)
        ELSE LET luser == Lookup(passwd, a) IN
             IF luser.err THEN ParseErr("uid lookup", a, << <<"user", a>> >>)
             ELSE IF Len(idparts) = 1
             THEN LET grp == Lookup(group, a) IN
                  IF grp.err
                  THEN ParseErr("gid lookup", a, << <<"user", a>>, <<"group", a>> >>)
                  ELSE ParseOk(luser.val, grp.val, << <<"user", a>>, <<"group", a>> >>)
             ELSE ParseOk(luser.val, 0, << <<"user", a>> >>)

parseRemappedRoot(usergrp) ==
    LET idparts == Split(usergrp) IN
    IF Len(idparts) > 2 THEN ParseErr("invalid", usergrp, <<>>)
    ELSE LET u == parseUserPart(idparts) IN
         IF u.err # "" THEN u
         ELSE IF Len(idparts) = 2
         THEN LET b == idparts[2]
                  gid == ParseInt(b)
              IN  IF ~gid.err THEN ParseOk(u.userId, gid.val, u.lookups)
                  ELSE LET grp == Lookup(group, b) IN
                       IF grp.err
                       THEN ParseErr("gid lookup", b, Append(u.lookups, <<"group", b>>))
                       ELSE ParseOk(u.userId, grp.val, Append(u.lookups, <<"group", b>>))
         ELSE u

NotParsed == [userId |-> 0, groupId |-> 0, err |-> "not called", quoted |-> <<>>,
              lookups |-> <<>>]

SetupResult(u, g, e, p) == [uidMaps |-> u, gidMaps |-> g, err |-> e, parsed |-> p]

\* a setup that does not look at the execdriver
setupRemappedRootAnyDriver(cfg) ==
    IF goos = "windows" /\ cfg.RemappedRoot # <<>>
    THEN SetupResult(NilMap, NilMap, "windows", NotParsed)
    ELSE IF cfg.RemappedRoot # <<>>
    THEN LET p == parseRemappedRoot(cfg.RemappedRoot) IN
         IF p.err # "" THEN SetupResult(NilMap, NilMap, "parse", p)
         ELSE LET m == CreateIDMapsForRoot(p.userId, p.groupId) IN
              IF m.err THEN SetupResult(NilMap, NilMap, "id maps", p)
              ELSE SetupResult(m.uidMaps, m.gidMaps, "", p)
    ELSE SetupResult(NilMap, NilMap, "", NotParsed)

setupRemappedRoot(cfg) ==
    IF cfg.ExecDriver # "native" /\ cfg.RemappedRoot # <<>>
    THEN SetupResult(NilMap, NilMap, "execdriver", NotParsed)
    ELSE IF goos = "windows" /\ cfg.RemappedRoot # <<>>
    THEN SetupResult(NilMap, NilMap, "windows", NotParsed)
    ELSE IF cfg.RemappedRoot # <<>>
    THEN LET p == parseRemappedRoot(cfg.RemappedRoot) IN
         IF p.err # "" THEN SetupResult(NilMap, NilMap, "parse", p)
         ELSE LET m == CreateIDMapsForRoot(p.userId, p.groupId) IN
              IF m.err THEN SetupResult(NilMap, NilMap, "id maps", p)
              ELSE SetupResult(m.uidMaps, m.gidMaps, "", p)
    ELSE SetupResult(NilMap, NilMap, "", NotParsed)

\* the error of verifyExperimentalContainerSettings, "" for nil
verifyExperimentalContainerSettings(privileged) ==
    IF privileged /\ config.RemappedRoot # <<>> THEN "privileged" ELSE ""

NotSetUp == [called |-> FALSE, err |-> "", parsed |-> NotParsed]
NotVerified == [called |-> FALSE, privileged |-> FALSE, err |-> ""]

\* daemon start: the tables come from the configuration
SetupRemappedRootCall ==
    LET r == setupRemappedRoot(config) IN
    /\ ~setup.called
    /\ uidMaps' = r.uidMaps
    /\ gidMaps' = r.gidMaps
    /\ setup' = [called |-> TRUE, err |-> r.err, parsed |-> r.parsed]
    /\ UNCHANGED <<created, xlate, config, goos, passwd, group, verify, rootVars, applyVars, drvVars>>

\* a container is created on the started daemon
VerifyContainerSettingsCall ==
    \E privileged \in BOOLEAN :
        /\ setup.called /\ setup.err = ""
        /\ verify' = [called |-> TRUE, privileged |-> privileged,
                      err |-> verifyExperimentalContainerSettings(privileged)]
        /\ UNCHANGED <<idVars, config, goos, passwd, group, setup, rootVars, applyVars, drvVars>>

-----------------------------------------------------------------------------
(* SpecConfig: daemon start with every --root option of up to MaxSpecLen
   characters *)

OptionChars == {"0", "1", "5", "-", ":", "a"}

Options == SeqsUpTo(OptionChars, MaxSpecLen)

\* the user and group databases of the host: "a" may be a user (root's uid or
\* an ordinary one) and a group
Name(str) == << str >>
NoEntries == [n \in {} |-> 0]
PasswdFiles == { NoEntries, Name("a") :> 2, Name("a") :> 0 }
GroupFiles == { NoEntries, Name("a") :> 3 }

InitConfig ==
    /\ uidMaps = NilMap
    /\ gidMaps = NilMap
    /\ created = NotCreated
    /\ xlate = NoXlate
    /\ config \in [RemappedRoot : Options, ExecDriver : {"native", "lxc"}]
    /\ goos \in {"linux", "windows"}
    /\ passwd \in PasswdFiles
    /\ group \in GroupFiles
    /\ setup = NotSetUp
    /\ verify = NotVerified
    /\ IdleRoot
    /\ IdleApply
    /\ IdleDriver

NextConfig ==
    \/ SetupRemappedRootCall
    \/ VerifyContainerSettingsCall

SpecConfig == InitConfig /\ [][NextConfig]_vars

-----------------------------------------------------------------------------
(* daemon: the root directory *)

\* a directory entry: who made it (the installation found on disk, or this
\* daemon), its owner and its mode
Entry(origin, uid, gid, mode) == [origin |-> origin, uid |-> uid, gid |-> gid, mode |-> mode]

\* rootDir: whether it exists, its mode, its entries (top) and the entries of
\* its "0.0" subdirectory (sub)
NoRootDir == [exists |-> FALSE, mode |-> "", top |-> NoEntries, sub |-> NoEntries]

\* nsRoot := "0.0"
NsRoot00 == << "0", ".", "0" >>

\* strconv of a one-digit id, as %d prints it
Itoa(n) ==
    CASE n = 0 -> <<"0">> [] n = 1 -> <<"1">> [] n = 2 -> <<"2">> [] n = 3 -> <<"3">>
      [] n = 4 -> <<"4">> [] n = 5 -> <<"5">> [] n = 6 -> <<"6">> [] n = 7 -> <<"7">>
      [] n = 8 -> <<"8">> [] n = 9 -> <<"9">>

\* fmt.Sprintf("%d.%d", rootUID, rootGID)
SprintfNsRoot(rootUID, rootGID) == Itoa(rootUID) \o <<".">> \o Itoa(rootGID)

\* the entry names of the model in the order ioutil.ReadDir returns them
\* (sorted by name)
NameOrder ==
    << NsRoot00, <<"1", ".", "1">>, <<"1", ".", "2">>, <<"a">>, <<"b">> >>

ReadDir(names) == SelectSeq(NameOrder, LAMBDA n : n \in names)

Without(f, names) == [n \in (DOMAIN f) \ names |-> f[n]]
With(f, name, entry) == [n \in (DOMAIN f) \cup {name} |-> IF n = name THEN entry ELSE f[n]]

\* a system call the host fails: [op, k], the k-th call of that kind
NoFailure == [op |-> "none", k |-> 0]
Fails(op, k) == [op |-> op, k |-> k]

\* a move that returns after the first entry
MoveDirToSubdirFirstOnly(dir, subdir, fail) ==
    LET infos == ReadDir(DOMAIN dir.top)
        toMove == SelectSeq(infos, LAMBDA n : n # subdir)
        moved == IF toMove = <<>> THEN {} ELSE { toMove[1] }
    IN  [dir |-> [dir EXCEPT !.top = Without(dir.top, moved),
                             !.sub = [n \in (DOMAIN dir.sub) \cup moved |->
                                        IF n \in moved THEN dir.top[n] ELSE dir.sub[n]]],
         err |-> FALSE, moves |-> Cardinality(moved)]

\* directory.MoveDirToSubdir(oldpath, subdir): every entry but subdir is
\* renamed into subdir, in ReadDir order, until a rename fails
MoveDirToSubdir(dir, subdir, fail) ==
    IF fail.op = "readdir" THEN [dir |-> dir, err |-> TRUE, moves |-> 0]
    ELSE
    LET infos == ReadDir(DOMAIN dir.top)
        toMove == SelectSeq(infos, LAMBDA n : n # subdir)
        failed == fail.op = "rename" /\ fail.k <= Len(toMove)
        done == IF failed THEN fail.k - 1 ELSE Len(toMove)
        moved == { toMove[i] : i \in 1 .. done }
    IN  [dir |-> [dir EXCEPT !.top = Without(dir.top, moved),
                             !.sub = [n \in (DOMAIN dir.sub) \cup moved |->
                                        IF n \in moved THEN dir.top[n] ELSE dir.sub[n]]],
         err |-> failed, moves |-> done]

\* idtools.MkdirAllAs(rootDir/name, mode, ownerUID, ownerGID): the directory is
\* made when absent, and chowned whether it was made or found
MkdirAllAs(dir, name, mode, ownerUID, ownerGID, fail) ==
    IF name \notin DOMAIN dir.top /\ fail.op = "mkdirall"
    THEN [dir |-> dir, err |-> TRUE]
    ELSE LET made == IF name \in DOMAIN dir.top THEN dir
                     ELSE [dir EXCEPT !.top = With(dir.top, name, Entry("daemon", 0, 0, mode))]
         IN  IF fail.op = "chown" THEN [dir |-> made, err |-> TRUE]
             ELSE [dir |-> [made EXCEPT !.top[name].uid = ownerUID,
                                        !.top[name].gid = ownerGID],
                   err |-> FALSE]

RootResult(dir, root, err, moves) == [dir |-> dir, root |-> root, err |-> err, moves |-> moves]

\* a subtree that is "0.0" whatever the remap option
createNsRootUnmapped(cfg, dir, root, rootUID, rootGID, fail, moves) ==
    LET m == MkdirAllAs(dir, NsRoot00, "0700", rootUID, rootGID, fail)
    IN  RootResult(m.dir, NsRoot00, IF m.err THEN "create root" ELSE "", moves)

\* lines 80-94: the subtree of the (remapped) root
createNsRoot(cfg, dir, root, rootUID, rootGID, fail, moves) ==
    LET nsRoot == IF cfg.RemappedRoot # <<>> THEN SprintfNsRoot(rootUID, rootGID)
                  ELSE NsRoot00
        m == MkdirAllAs(dir, nsRoot, "0700", rootUID, rootGID, fail)
    IN  RootResult(m.dir, nsRoot, IF m.err THEN "create root" ELSE "", moves)

\* a setup that moves the entries of an existing root whether or not it holds
\* "0.0" already
setupDaemonRootAlwaysMigrate(cfg, dir, root, rootUID, rootGID, fail) ==
    IF dir.exists
    THEN LET made == IF NsRoot00 \in DOMAIN dir.top THEN dir
                     ELSE [dir EXCEPT !.top = With(dir.top, NsRoot00,
                                                    Entry("daemon", 0, 0, "0700"))]
             mv == MoveDirToSubdir(made, NsRoot00, fail)
         IN  IF mv.err THEN RootResult(mv.dir, root, "migrate", mv.moves)
             ELSE createNsRoot(cfg, [mv.dir EXCEPT !.mode = "0755"], root,
                               rootUID, rootGID, fail, mv.moves)
    ELSE createNsRoot(cfg, [NoRootDir EXCEPT !.exists = TRUE, !.mode = "0755",
                              !.top = With(NoEntries, NsRoot00,
                                           Entry("daemon", 0, 0, "0700"))],
                      root, rootUID, rootGID, fail, 0)

\* a setup that resumes an interrupted migration: with "0.0" present it moves
\* the entries of the earlier installation that are still at the top level
setupDaemonRootResume(cfg, dir, root, rootUID, rootGID, fail) ==
    IF dir.exists /\ NsRoot00 \in DOMAIN dir.top
    THEN LET left == { n \in DOMAIN dir.top : dir.top[n].origin = "legacy" }
             moved == [dir EXCEPT !.top = Without(dir.top, left),
                                  !.sub = [n \in (DOMAIN dir.sub) \cup left |->
                                             IF n \in left THEN dir.top[n] ELSE dir.sub[n]]]
         IN  createNsRoot(cfg, moved, root, rootUID, rootGID, fail, Cardinality(left))
    ELSE setupDaemonRootAlwaysMigrate(cfg, dir, root, rootUID, rootGID, fail)

\* setupDaemonRoot(config, rootDir, rootUID, rootGID): the tree it leaves,
\* config.Root (root when the call returns before setting it), the error and
\* the number of entries it moved
setupDaemonRoot(cfg, dir, root, rootUID, rootGID, fail) ==
    IF dir.exists
    THEN IF NsRoot00 \notin DOMAIN dir.top
         THEN IF fail.op = "mkdir"
              THEN RootResult(dir, root, "create 0.0", 0)
              ELSE LET made == [dir EXCEPT !.top = With(dir.top, NsRoot00,
                                                         Entry("daemon", 0, 0, "0700"))]
                       mv == MoveDirToSubdir(made, NsRoot00, fail)
                   IN  IF mv.err THEN RootResult(mv.dir, root, "migrate", mv.moves)
                       ELSE IF fail.op = "chmod"
                       THEN RootResult(mv.dir, root, "chmod", mv.moves)
                       ELSE createNsRoot(cfg, [mv.dir EXCEPT !.mode = "0755"], root,
                                         rootUID, rootGID, fail, mv.moves)
         ELSE createNsRoot(cfg, dir, root, rootUID, rootGID, fail, 0)
    ELSE IF fail.op = "mkdirall root"
         THEN RootResult(dir, root, "create rootDir", 0)
         ELSE LET made == [NoRootDir EXCEPT !.exists = TRUE, !.mode = "0755"] IN
              IF fail.op = "mkdir"
              THEN RootResult(made, root, "create 0.0", 0)
              ELSE createNsRoot(cfg, [made EXCEPT !.top = With(NoEntries, NsRoot00,
                                                       Entry("daemon", 0, 0, "0700"))],
                                root, rootUID, rootGID, fail, 0)

NotEnsured ==
    [called |-> FALSE, starts |-> 0, remap |-> <<>>, uid |-> 0, gid |-> 0, err |-> "",
     moves |-> 0, before |-> NoRootDir]
NoPrior == [ok |-> FALSE, remap |-> <<>>, tree |-> NoRootDir, root |-> <<>>, anyOk |-> FALSE]

\* the --root options of the daemon starts: none, a uid, a uid and a gid
RootOptions == { <<>>, <<"1">>, <<"1", ":", "2">> }

\* the system calls the host may fail during one setup
FailPoints ==
    { NoFailure, Fails("mkdirall root", 1), Fails("mkdir", 1), Fails("readdir", 1),
      Fails("rename", 1), Fails("rename", 2), Fails("chmod", 1),
      Fails("mkdirall", 1), Fails("chown", 1) }

\* a daemon start: the tables and the root ids come from the option, then
\* the root directory is set up
SetupDaemonRootCall ==
    \E option \in RootOptions, fail \in FailPoints :
        LET cfg == [RemappedRoot |-> option, ExecDriver |-> "native"] IN
        \E maps \in { setupRemappedRoot(cfg) } :
        \E ids \in { GetRootUIDGID(maps.uidMaps, maps.gidMaps) } :
        \E r \in { setupDaemonRoot(cfg, rootDir, configRoot, ids.uid, ids.gid, fail) } :
            /\ ensure.starts < MaxStarts
            /\ maps.err = "" /\ ~ids.err
            /\ rootDir' = r.dir
            /\ configRoot' = r.root
            /\ ensure' = [called |-> TRUE, starts |-> ensure.starts + 1, remap |-> option,
                          uid |-> ids.uid, gid |-> ids.gid, err |-> r.err,
                          moves |-> r.moves, before |-> rootDir]
            /\ prior' = [ok |-> ensure.called /\ ensure.err = "", remap |-> ensure.remap,
                         tree |-> rootDir, root |-> configRoot,
                         anyOk |-> prior.anyOk \/ (ensure.called /\ ensure.err = "")]
            /\ UNCHANGED <<idVars, cfgVars, applyVars, drvVars>>

-----------------------------------------------------------------------------
(* SpecRoot: daemon starts on a root directory that is absent or holds the
   flat layout of an earlier installation *)

LegacyNames == { <<"a">>, <<"b">> }

FlatRoots ==
    { [exists |-> TRUE, mode |-> "0700",
       top |-> [n \in S |-> Entry("legacy", 0, 0, "0755")], sub |-> NoEntries] :
      S \in SUBSET LegacyNames }

InitRoot ==
    /\ uidMaps = NilMap
    /\ gidMaps = NilMap
    /\ created = NotCreated
    /\ xlate = NoXlate
    /\ IdleConfig
    /\ rootDir \in { NoRootDir } \cup FlatRoots
    /\ configRoot = <<>>
    /\ ensure = NotEnsured
    /\ prior = NoPrior
    /\ IdleApply
    /\ IdleDriver

NextRoot == SetupDaemonRootCall

SpecRoot == InitRoot /\ [][NextRoot]_vars

-----------------------------------------------------------------------------
(* pkg/chrootarchive: the layer applier *)

\* a path is a sequence of characters; filepath.Clean on the destinations of
\* the model drops a trailing separator
Clean(path) ==
    IF Len(path) > 1 /\ path[Len(path)] = "/" THEN SubSeq(path, 1, Len(path) - 1)
    ELSE path

\* json Encode of applyLayerResponse{size}: the tokens of {"layerSize":size}
EncodeResponse(size) == << "{", "layerSize", ToString(size), "}" >>

\* json Decode of the first value of buf into an applyLayerResponse
DecodeResponse(buf) ==
    IF Len(buf) >= 4 /\ buf[1] = "{" /\ buf[2] = "layerSize" /\ buf[4] = "}"
       /\ \E n \in 0 .. (MaxLayerSize + 1) : ToString(n) = buf[3]
    THEN [LayerSize |-> CHOOSE n \in 0 .. (MaxLayerSize + 1) : ToString(n) = buf[3],
          err |-> ""]
    ELSE [LayerSize |-> 0, err |-> IF buf = <<>> THEN "EOF" ELSE "invalid character"]

\* what the archive codec may print while it unpacks
Warning == "warning"

NoChild ==
    [pc |-> "none", by |-> "", opt |-> "", arg |-> <<>>, options |-> "none",
     root |-> <<"/">>, umask |-> "inherited", tmpDir |-> "none",
     unpack |-> <<>>, size |-> 0, unpackErr |-> FALSE,
     stdout |-> <<>>, stderr |-> <<>>, exit |-> -1]

NoParent ==
    [pc |-> "idle", dest |-> <<>>, spawned |-> 0, size |-> 0, err |-> "", text |-> <<>>]

\* the process image reexec starts: argument dest, OPT in the environment
Launched(by, dest, opt) == [NoChild EXCEPT !.pc = "decode", !.by = by, !.arg = dest, !.opt = opt]

\* fatal(err): the diagnostic goes to standard error and the process exits 1
fatal(c, diagnostic) ==
    [c EXCEPT !.stderr = Append(c.stderr, diagnostic), !.exit = 1, !.pc = "exited"]

\* a child that goes on to the chroot after a decode error
applyLayerDecodeLenient(c) == [c EXCEPT !.options = "decoded", !.pc = "chroot"]

\* lines 23-30: flag.Parse and json.Unmarshal of OPT
applyLayerDecode(c) ==
    IF c.opt = "malformed" THEN fatal(c, "decode")
    ELSE [c EXCEPT !.options = "decoded", !.pc = "chroot"]

\* lines 32-34: chroot(flag.Arg(0))
applyLayerChroot(c, ok) ==
    IF ~ok THEN fatal(c, "chroot")
    ELSE [c EXCEPT !.root = c.arg, !.pc = "tempdir"]

\* lines 36-42: Umask(0) and ioutil.TempDir
applyLayerTempDir(c, ok) ==
    IF ~ok THEN fatal([c EXCEPT !.umask = "0"], "tempdir")
    ELSE [c EXCEPT !.umask = "0", !.tmpDir = "present", !.pc = "unpack"]

\* lines 44-45: archive.UnpackLayer("/", os.Stdin, options); the codec returns
\* a size or an error and may print to the standard streams of the process
applyLayerUnpack(c, res, outNoise, errNoise) ==
    [c EXCEPT !.unpack = Append(c.unpack, [root |-> <<"/">>, chroot |-> c.root,
                                           options |-> c.options]),
              !.size = res.size, !.unpackErr = res.err,
              !.stdout = IF outNoise THEN Append(c.stdout, Warning) ELSE c.stdout,
              !.stderr = IF errNoise THEN Append(c.stderr, Warning) ELSE c.stderr,
              !.pc = "removeall"]

\* a child that keeps the scratch directory when unpack failed
applyLayerRemoveAllOnSuccess(c) ==
    [c EXCEPT !.tmpDir = IF c.unpackErr THEN c.tmpDir ELSE "removed", !.pc = "report"]

\* line 46: os.RemoveAll(tmpDir)
applyLayerRemoveAll(c) == [c EXCEPT !.tmpDir = "removed", !.pc = "report"]

\* lines 47-58: the unpack error is fatal; else the response is encoded to
\* standard output and the process exits 0
applyLayerReport(c, encoded) ==
    IF c.unpackErr THEN fatal(c, "unpack")
    ELSE IF ~encoded THEN fatal(c, "encode")
    ELSE [c EXCEPT !.stdout = c.stdout \o EncodeResponse(c.size), !.exit = 0,
                   !.pc = "exited"]

\* fmt.Errorf("ApplyLayer %s stdout: %s stderr: %s", err, outBuf, errBuf)
RunErrorText(exit, outBuf, errBuf) ==
    << "ApplyLayer ", "exit status " \o ToString(exit), " stdout: " >> \o outBuf
       \o << " stderr: " >> \o errBuf

\* fmt.Errorf("unable to decode ApplyLayer JSON response: %s", err)
DecodeErrorText(err) == << "unable to decode ApplyLayer JSON response: ", err >>

ApplyResult(size, err, text) == [size |-> size, err |-> err, text |-> text]

\* lines 87-98 of ApplyLayer: the result from what cmd.Run captured
ApplyLayerCollect(exit, outBuf, errBuf) ==
    IF exit # 0 THEN ApplyResult(0, "run", RunErrorText(exit, outBuf, errBuf))
    ELSE LET response == DecodeResponse(outBuf) IN
         IF response.err # "" THEN ApplyResult(0, "decode", DecodeErrorText(response.err))
         ELSE ApplyResult(response.LayerSize, "", <<>>)

\* the destinations of the model
Dests == { <<"/", "d">>, <<"/", "d", "/">> }

\* what archive.UnpackLayer returns
UnpackResults ==
    { [size |-> n, err |-> FALSE] : n \in 0 .. MaxLayerSize } \cup { [size |-> 0, err |-> TRUE] }

\* lines 61-86 of ApplyLayer: the stream is decompressed, the options are
\* serialised and the child is started, once
ApplyLayerCall ==
    \E dest \in Dests, decompressed \in BOOLEAN :
        /\ parent.pc = "idle" /\ child.pc = "none"
        /\ IF ~decompressed
           THEN /\ parent' = [parent EXCEPT !.pc = "done", !.dest = Clean(dest),
                                            !.err = "decompress"]
                /\ UNCHANGED child
           ELSE /\ parent' = [parent EXCEPT !.pc = "waiting", !.dest = Clean(dest),
                                            !.spawned = parent.spawned + 1]
                /\ child' = Launched("ApplyLayer", Clean(dest), "valid")
        /\ UNCHANGED <<idVars, cfgVars, rootVars, drvVars>>

\* cmd.Run returns and ApplyLayer returns
ApplyLayerReturn ==
    /\ parent.pc = "waiting" /\ child.pc = "exited"
    /\ \E r \in { ApplyLayerCollect(child.exit, child.stdout, child.stderr) } :
          parent' = [parent EXCEPT !.pc = "done", !.size = r.size, !.err = r.err,
                                   !.text = r.text]
    /\ UNCHANGED <<child, idVars, cfgVars, rootVars, drvVars>>

\* the binary is started as docker-applyLayer by another caller, with an
\* environment of its own
ReexecDirect ==
    \E dest \in Dests, opt \in {"valid", "malformed"} :
        /\ parent.pc = "idle" /\ child.pc = "none"
        /\ child' = Launched("direct", dest, opt)
        /\ UNCHANGED <<parent, idVars, cfgVars, rootVars, drvVars>>

ChildDecode ==
    /\ child.pc = "decode"
    /\ child' = applyLayerDecode(child)
    /\ UNCHANGED <<parent, idVars, cfgVars, rootVars, drvVars>>

ChildChroot ==
    /\ child.pc = "chroot"
    /\ \E ok \in BOOLEAN : child' = applyLayerChroot(child, ok)
    /\ UNCHANGED <<parent, idVars, cfgVars, rootVars, drvVars>>

ChildTempDir ==
    /\ child.pc = "tempdir"
    /\ \E ok \in BOOLEAN : child' = applyLayerTempDir(child, ok)
    /\ UNCHANGED <<parent, idVars, cfgVars, rootVars, drvVars>>

ChildUnpack ==
    /\ child.pc = "unpack"
    /\ \E res \in UnpackResults, outNoise \in BOOLEAN, errNoise \in BOOLEAN :
          child' = applyLayerUnpack(child, res, outNoise, errNoise)
    /\ UNCHANGED <<parent, idVars, cfgVars, rootVars, drvVars>>

ChildRemoveAll ==
    /\ child.pc = "removeall"
    /\ child' = applyLayerRemoveAll(child)
    /\ UNCHANGED <<parent, idVars, cfgVars, rootVars, drvVars>>

ChildReport ==
    /\ child.pc = "report"
    /\ \E encoded \in BOOLEAN : child' = applyLayerReport(child, encoded)
    /\ UNCHANGED <<parent, idVars, cfgVars, rootVars, drvVars>>

-----------------------------------------------------------------------------
(* SpecApply: one layer applied through ApplyLayer, or one child started
   directly *)

InitApply ==
    /\ uidMaps = NilMap
    /\ gidMaps = NilMap
    /\ created = NotCreated
    /\ xlate = NoXlate
    /\ IdleConfig
    /\ IdleRoot
    /\ child = NoChild
    /\ parent = NoParent
    /\ IdleDriver

NextApply ==
    \/ ApplyLayerCall
    \/ ApplyLayerReturn
    \/ ReexecDirect
    \/ ChildDecode
    \/ ChildChroot
    \/ ChildTempDir
    \/ ChildUnpack
    \/ ChildRemoveAll
    \/ ChildReport

SpecApply == InitApply /\ [][NextApply]_vars

-----------------------------------------------------------------------------
(* daemon/graphdriver/devmapper: the operations of the Driver *)

\* DeviceSet.AddDevice(id, ""): a new device with an empty file system
AddDevice(w, id, failed) ==
    IF failed \/ id \in w.devices THEN [w |-> w, err |-> TRUE]
    ELSE [w |-> [w EXCEPT !.devices = w.devices \cup {id},
                          !.rootfs[id] = NoDir, !.idFile[id] = NoFile],
          err |-> FALSE]

\* DeviceSet.HasDevice(id)
HasDevice(w, id) == id \in w.devices

\* DeviceSet.DeleteDevice(id): refused for an unknown or a mounted device
DeleteDevice(w, id, failed) ==
    LET counted == [w EXCEPT !.calls[id].delete = w.calls[id].delete + 1] IN
    IF failed \/ id \notin w.devices \/ w.active[id] > 0 THEN [w |-> counted, err |-> TRUE]
    ELSE [w |-> [counted EXCEPT !.devices = w.devices \ {id},
                                !.rootfs[id] = NoDir, !.idFile[id] = NoFile],
          err |-> FALSE]

\* DeviceSet.MountDevice(id, mp, mountLabel): refused for an unknown device
MountDevice(w, id, failed) ==
    LET counted == [w EXCEPT !.calls[id].mount = w.calls[id].mount + 1] IN
    IF failed \/ id \notin w.devices THEN [w |-> counted, err |-> TRUE]
    ELSE [w |-> [counted EXCEPT !.active[id] = w.active[id] + 1], err |-> FALSE]

\* DeviceSet.UnmountDevice(id): refused for a device that is not mounted
UnmountDevice(w, id, failed) ==
    LET counted == [w EXCEPT !.calls[id].unmount = w.calls[id].unmount + 1] IN
    IF failed \/ w.active[id] = 0 THEN [w |-> counted, err |-> TRUE]
    ELSE [w |-> [counted EXCEPT !.active[id] = w.active[id] - 1], err |-> FALSE]

\* path.Join(d.home, "mnt", id, "rootfs")
RootFsPath(id) == << "home", "mnt", id, "rootfs" >>

\* a Get that returns its error with the device left mounted
GetUnmountSkipped(w, p) == Result(w, Done(p, p.err))

\* lines 240 and 249: d.DeviceSet.UnmountDevice(id), its error discarded
GetUnmount(w, p) ==
    LET u == UnmountDevice(w, p.id, p.fail.umount) IN
    Result(u.w, Done(Logged(p, IF u.err THEN "UnmountDevice failed" ELSE "UnmountDevice"),
                     p.err))

\* a Get that mounts the device twice
GetMountTwice(w, p) ==
    LET m == MountDevice(w, p.id, p.fail.at = "mount") IN
    IF m.err THEN Result(m.w, Done(Logged(p, "MountDevice failed"), "mount"))
    ELSE Result(MountDevice(m.w, p.id, FALSE).w,
                [Logged(Logged(p, "MountDevice"), "MountDevice")
                   EXCEPT !.pc = "mkdirall rootfs"])

\* lines 234-236: d.DeviceSet.MountDevice(id, mp, mountLabel)
GetMount(w, p) ==
    LET m == MountDevice(w, p.id, p.fail.at = "mount") IN
    IF m.err THEN Result(m.w, Done(Logged(p, "MountDevice failed"), "mount"))
    ELSE Result(m.w, [Logged(p, "MountDevice") EXCEPT !.pc = "mkdirall rootfs"])

\* Driver.Get(id, mountLabel), one call at a time
GetStep(w, p) ==
    LET id == p.id IN
    CASE p.pc = "start" ->
           LET ids == GetRootUIDGID(uidMaps, gidMaps) IN
           IF ids.err THEN Result(w, Done(p, "root ids"))
           ELSE Result(w, [p EXCEPT !.uid = ids.uid, !.gid = ids.gid, !.pc = "stat mnt"])
      [] p.pc = "stat mnt" ->
           Result(w, [p EXCEPT !.seen = w.mnt.exists, !.pc = "mkdirall mnt"])
      [] p.pc = "mkdirall mnt" ->
           IF p.fail.at = "mkdirall mnt" THEN Result(w, Done(p, "mnt"))
           ELSE Result(IF p.seen \/ w.mnt.exists THEN w ELSE [w EXCEPT !.mnt = DirOf(0, 0)],
                       [p EXCEPT !.pc = "chown mnt"])
      [] p.pc = "chown mnt" ->
           IF p.fail.at = "chown mnt" \/ ~w.mnt.exists THEN Result(w, Done(p, "mnt"))
           ELSE Result([w EXCEPT !.mnt = DirOf(p.uid, p.gid)], [p EXCEPT !.pc = "mkdir mp"])
      [] p.pc = "mkdir mp" ->
           IF p.fail.at = "mkdir mp" \/ ~w.mnt.exists THEN Result(w, Done(p, "mp"))
           ELSE Result(IF w.mp[id].exists THEN w ELSE [w EXCEPT !.mp[id] = DirOf(0, 0)],
                       [p EXCEPT !.pc = "chown mp"])
      [] p.pc = "chown mp" ->
           IF p.fail.at = "chown mp" \/ ~w.mp[id].exists THEN Result(w, Done(p, "mp"))
           ELSE Result([w EXCEPT !.mp[id] = DirOf(p.uid, p.gid)], [p EXCEPT !.pc = "mount"])
      [] p.pc = "mount" -> GetMount(w, p)
      [] p.pc = "mkdirall rootfs" ->
           IF p.fail.at = "mkdirall rootfs"
           THEN Result(w, [p EXCEPT !.err = "rootfs", !.pc = "unmount"])
           ELSE Result(IF w.rootfs[id].exists THEN w ELSE [w EXCEPT !.rootfs[id] = DirOf(0, 0)],
                       [p EXCEPT !.pc = "chown rootfs"])
      [] p.pc = "chown rootfs" ->
           IF p.fail.at = "chown rootfs"
           THEN Result(w, [p EXCEPT !.err = "rootfs", !.pc = "unmount"])
           ELSE Result([w EXCEPT !.rootfs[id] = DirOf(p.uid, p.gid)],
                       [p EXCEPT !.pc = "stat id"])
      [] p.pc = "stat id" ->
           IF w.idFile[id].exists THEN Result(w, [p EXCEPT !.pc = "return"])
           ELSE Result(w, [p EXCEPT !.pc = "write id"])
      [] p.pc = "write id" ->
           IF p.fail.at = "write id"
           THEN Result(w, [p EXCEPT !.err = "id file", !.pc = "unmount"])
           ELSE IF p.fail.at = "write id short"
           THEN Result([w EXCEPT !.idFile[id] = FileOf("")],
                       [p EXCEPT !.err = "id file", !.pc = "unmount"])
           ELSE Result([w EXCEPT !.idFile[id] = FileOf(id)], [p EXCEPT !.pc = "return"])
      [] p.pc = "unmount" -> GetUnmount(w, p)
      [] p.pc = "return" ->
           Result(w, [Done(p, "") EXCEPT !.path = RootFsPath(id)])

\* Driver.Put(id)
PutStep(w, p) ==
    LET u == UnmountDevice(w, p.id, p.fail.at = "unmount") IN
    IF u.err THEN Result(u.w, Done(Logged(p, "UnmountDevice failed"), "unmount"))
    ELSE Result(u.w, Done(Logged(p, "UnmountDevice"), ""))

\* Driver.Create(id, parent)
CreateStep(w, p) ==
    LET a == AddDevice(w, p.id, p.fail.at = "add") IN
    Result(a.w, Done(Logged(p, "AddDevice"), IF a.err THEN "add" ELSE ""))

\* a Remove that goes on to DeleteDevice whether or not the device exists
RemoveCheckSkipped(w, p) == Result(w, [p EXCEPT !.pc = "delete"])

\* lines 198-203: removing a device that does not exist is a no-op
RemoveCheck(w, p) ==
    IF ~HasDevice(w, p.id) THEN Result(w, Done(p, ""))
    ELSE Result(w, [p EXCEPT !.pc = "delete"])

\* a Remove that removes the mountpoint whatever DeleteDevice returned
RemoveDeleteThenAlwaysRemoveAll(w, p) ==
    LET d == DeleteDevice(w, p.id, p.fail.at = "delete") IN
    Result(d.w, [Logged(p, IF d.err THEN "DeleteDevice failed" ELSE "DeleteDevice")
                   EXCEPT !.pc = "removeall"])

\* lines 206-208: d.DeviceSet.DeleteDevice(id)
RemoveDelete(w, p) ==
    LET d == DeleteDevice(w, p.id, p.fail.at = "delete") IN
    IF d.err THEN Result(d.w, Done(Logged(p, "DeleteDevice failed"), "delete"))
    ELSE Result(d.w, [Logged(p, "DeleteDevice") EXCEPT !.pc = "removeall"])

\* a Remove whose RemoveAll takes all of home/mnt
RemoveAllOfMnt(w, p) ==
    Result([w EXCEPT !.mnt = NoDir, !.mp = [i \in Ids |-> NoDir]],
           Done(Logged(p, "RemoveAll"), ""))

\* lines 210-215: os.RemoveAll(mp); a "does not exist" error is not returned
RemoveRemoveAll(w, p) ==
    IF p.fail.at = "removeall"
    THEN Result(w, Done(Logged(p, "RemoveAll failed"), "removeall"))
    ELSE IF p.fail.at = "removeall not exist"
    THEN Result([w EXCEPT !.mp[p.id] = NoDir], Done(Logged(p, "RemoveAll not exist"), ""))
    ELSE Result([w EXCEPT !.mp[p.id] = NoDir], Done(Logged(p, "RemoveAll"), ""))

\* Driver.Remove(id), one call at a time
RemoveStep(w, p) ==
    CASE p.pc = "start" -> RemoveCheck(w, p)
      [] p.pc = "delete" -> RemoveDelete(w, p)
      [] p.pc = "removeall" -> RemoveRemoveAll(w, p)

\* one call of the operation p is in
StepOp(w, p) ==
    CASE p.op = "Get" -> GetStep(w, p)
      [] p.op = "Put" -> PutStep(w, p)
      [] p.op = "Create" -> CreateStep(w, p)
      [] p.op = "Remove" -> RemoveStep(w, p)

\* the operation run to its return, with no other operation in between
RECURSIVE RunOp(_, _)
RunOp(w, p) ==
    IF p.pc = "done" THEN Result(w, p)
    ELSE LET r == StepOp(w, p) IN RunOp(r.w, r.p)

\* DeviceSet.Shutdown(): every device is unmounted and the pool deactivated
Shutdown(w, failed) ==
    IF failed THEN [w |-> w, err |-> "shutdown"]
    ELSE [w |-> [w EXCEPT !.active = [i \in Ids |-> 0], !.down = TRUE], err |-> ""]

\* mount.Unmount(d.home)
UnmountHome(w, failed) ==
    IF failed THEN [w |-> w, err |-> "unmount home"]
    ELSE [w |-> [w EXCEPT !.homeMounted = FALSE], err |-> ""]

\* a Cleanup that returns after a failed Shutdown
CleanupShutdownOnly(w, shutdownFails, unmountFails) ==
    LET s == Shutdown(w, shutdownFails)
        u == UnmountHome(s.w, unmountFails)
    IN  IF s.err # "" THEN [w |-> s.w, err |-> s.err, log |-> << "Shutdown" >>]
        ELSE [w |-> u.w, err |-> u.err, log |-> << "Shutdown", "Unmount" >>]

\* Driver.Cleanup(): DeviceSet.Shutdown(), then mount.Unmount(d.home)
Cleanup(w, shutdownFails, unmountFails) ==
    LET s == Shutdown(w, shutdownFails)
        u == UnmountHome(s.w, unmountFails)
    IN  [w |-> u.w, err |-> IF s.err = "" THEN u.err ELSE s.err,
         log |-> << "Shutdown", "Unmount" >>]

\* the calls of each operation the host may fail
FailsOf(op) ==
    CASE op = "Get" ->
           { NoFail } \cup
           { FailAt(c, FALSE) :
               c \in {"mkdirall mnt", "chown mnt", "mkdir mp", "chown mp", "mount"} } \cup
           { FailAt(c, u) :
               c \in {"mkdirall rootfs", "chown rootfs", "write id", "write id short"},
               u \in BOOLEAN }
      [] op = "Put" -> { NoFail, FailAt("unmount", FALSE) }
      [] op = "Create" -> { NoFail, FailAt("add", FALSE) }
      [] op = "Remove" ->
           { NoFail, FailAt("delete", FALSE), FailAt("removeall", FALSE),
             FailAt("removeall not exist", FALSE) }

Ops == { "Create", "Get", "Put", "Remove" }

\* the tables a Driver is constructed with: none, those of a remapped root,
\* and a table without a range for container root
DriverTables ==
    { << NilMap, NilMap >>, << createIDMap(1), createIDMap(2) >>,
      << MkSlice(<< IDMap(1, 1, 1) >>), NilMap >> }

\* whether the Get and Put calls on an id so far were successful Get/Put pairs
\* ("pairs"), such pairs and a successful Get ("open"), or anything else
NextPairs(state, op, err) ==
    IF op \notin {"Get", "Put"} THEN state
    ELSE IF err # "" THEN "broken"
    ELSE IF op = "Get" /\ state = "pairs" THEN "open"
    ELSE IF op = "Put" /\ state = "open" THEN "pairs"
    ELSE "broken"

\* a caller invokes one operation of the Driver and waits for its return
DriverCall ==
    /\ hist.nops < MaxOps /\ ~drv.down
    /\ \E id \in Ids, op \in Ops :
       \E fail \in FailsOf(op) :
       \E r \in { RunOp(drv, Proc(id, op, fail)) } :
        /\ drv' = r.w
        /\ last' = [op |-> op, id |-> id, fail |-> fail, err |-> r.p.err,
                    path |-> r.p.path, log |-> r.p.log, before |-> drv]
        /\ hist' = [nops |-> hist.nops + 1,
                    pairs |-> [hist.pairs EXCEPT ![id] = NextPairs(@, op, r.p.err)]]
        /\ UNCHANGED <<idVars, cfgVars, rootVars, applyVars, procs, start>>

\* the daemon shuts the Driver down
CleanupCall ==
    /\ hist.nops < MaxOps /\ ~drv.down
    /\ \E shutdownFails \in BOOLEAN, unmountFails \in BOOLEAN :
       \E r \in { Cleanup(drv, shutdownFails, unmountFails) } :
        /\ drv' = r.w
        /\ last' = [op |-> "Cleanup", id |-> "",
                    fail |-> FailAt(IF shutdownFails THEN "shutdown" ELSE "none",
                                    unmountFails),
                    err |-> r.err, path |-> <<>>, log |-> r.log, before |-> drv]
        /\ hist' = [hist EXCEPT !.nops = hist.nops + 1]
        /\ UNCHANGED <<idVars, cfgVars, rootVars, applyVars, procs, start>>

-----------------------------------------------------------------------------
(* SpecDriver: operations of the Driver, one after the other *)

\* the world a Driver starts in: device "x" was created, device "y" was not
StartWorlds == { [NoWorld EXCEPT !.devices = {"x"}] }

InitDriver ==
    /\ \E tables \in DriverTables : uidMaps = tables[1] /\ gidMaps = tables[2]
    /\ created = NotCreated
    /\ xlate = NoXlate
    /\ IdleConfig
    /\ IdleRoot
    /\ IdleApply
    /\ drv \in StartWorlds
    /\ last = NoLast
    /\ hist = NoHist
    /\ procs = NoProcs
    /\ start = NoWorld

NextDriver ==
    \/ DriverCall
    \/ CleanupCall

SpecDriver == InitDriver /\ [][NextDriver]_vars

-----------------------------------------------------------------------------
(* SpecConcurrent: two callers, one per id, whose calls interleave *)

\* the operations the concurrent callers invoke
ConcurrentOps ==
    { << "Create", NoFail >>, << "Get", NoFail >>, << "Get", FailAt("write id", FALSE) >>,
      << "Put", NoFail >>, << "Remove", NoFail >> }

\* the life of a container: created, mounted, released, removed
Lifecycle ==
    << << "Create", NoFail >>, << "Get", NoFail >>, << "Put", NoFail >>,
       << "Remove", NoFail >> >>

\* what a caller does: one or two operations, or a whole life
Programs == { q \in SeqsUpTo(ConcurrentOps, 2) : q # <<>> } \cup { Lifecycle }

\* what a caller sees of an operation
Outcome(p) == [op |-> p.op, err |-> p.err, path |-> p.path]

\* the caller of id i makes the next call of its operation, or of its next
\* operation
ProcStep(i) ==
    LET pr == procs[i]
        p0 == IF pr.p.pc = "done" THEN Proc(i, pr.prog[pr.k][1], pr.prog[pr.k][2]) ELSE pr.p
    IN  /\ pr.k <= Len(pr.prog)
        /\ \E r \in { StepOp(drv, p0) } :
              /\ drv' = r.w
              /\ procs' = [procs EXCEPT ![i] =
                              IF r.p.pc = "done"
                              THEN [pr EXCEPT !.p = r.p, !.k = pr.k + 1,
                                              !.results = Append(pr.results, Outcome(r.p))]
                              ELSE [pr EXCEPT !.p = r.p]]
        /\ UNCHANGED <<idVars, cfgVars, rootVars, applyVars, last, hist, start>>

InitConcurrent ==
    /\ uidMaps = createIDMap(1)
    /\ gidMaps = createIDMap(2)
    /\ created = NotCreated
    /\ xlate = NoXlate
    /\ IdleConfig
    /\ IdleRoot
    /\ IdleApply
    /\ start \in { NoWorld, [NoWorld EXCEPT !.devices = Ids] }
    /\ drv = start
    /\ last = NoLast
    /\ hist = NoHist
    /\ procs \in [Ids -> { [prog |-> q, k |-> 1, p |-> Done(Proc("", "none", NoFail), ""),
                            results |-> <<>>] : q \in Programs }]

NextConcurrent == \E i \in Ids : ProcStep(i)

SpecConcurrent == InitConcurrent /\ [][NextConcurrent]_vars

-----------------------------------------------------------------------------
(* Claims on the id tables *)

\* the id CreateIDMapsForRoot was given for the table the last translation used
RequestedID == IF xlate.which = "uid" THEN created.uid ELSE created.gid

Built == created.called /\ ~created.err

\* the ranges of table t whose container interval holds c / host interval holds h
ContainerHits(t, c) ==
    { i \in 1 .. Len(t.elems) :
        c >= t.elems[i].ContainerID /\ c < t.elems[i].ContainerID + t.elems[i].Size }
HostHits(t, h) ==
    { i \in 1 .. Len(t.elems) :
        h >= t.elems[i].HostID /\ h < t.elems[i].HostID + t.elems[i].Size }

MinOf(S) == CHOOSE x \in S : \A y \in S : x <= y
MaxOf(a, b) == IF a >= b THEN a ELSE b

IdUniverse == -1 .. (MAXUINT32 + 2)
ContainerCover(t) == { c \in IdUniverse : ContainerHits(t, c) # {} }
HostCover(t) == { h \in IdUniverse : HostHits(t, h) # {} }
NoOverlap(t) ==
    \A x \in IdUniverse : Cardinality(ContainerHits(t, x)) <= 1
                          /\ Cardinality(HostHits(t, x)) <= 1

\* C2 as stated, for one table
C2_AsStated(t, id) ==
    /\ t = MkSlice(<< IDMap(0, id, 1), IDMap(1, 1, id - 1),
                      IDMap(id + 1, id + 1, MAXUINT32 - id) >>)
    /\ \A i \in 1 .. Len(t.elems) : t.elems[i].Size >= 1
    /\ NoOverlap(t)
    /\ ContainerCover(t) = 0 .. MAXUINT32
    /\ HostCover(t) = 0 .. MAXUINT32

\* C2 as stated: a built table is the three ranges {0,id,1}, {1,1,id-1},
\* {id+1,id+1,MAXUINT32-id}, each of size >= 1, covering the whole unsigned id
\* space without gap or overlap on both axes.
C2_ThreeRangesCoverUint ==
    Built => /\ C2_AsStated(uidMaps, created.uid)
             /\ C2_AsStated(gidMaps, created.gid)

\* C2 amended, for one table
C2_Amended(t, id) ==
    /\ t = MkSlice(<< IDMap(0, id, 1), IDMap(1, 1, id - 1),
                      IDMap(id + 1, id + 1, MaxInt32 - id) >>)
    /\ NoOverlap(t)
    /\ ContainerCover(t) = (0 .. MaxOf(MaxInt32, id - 1)) \ {id}
    /\ HostCover(t) = 1 .. MaxOf(MaxInt32, id)

\* C2 amended: a built table is the three ranges {0,id,1}, {1,1,id-1},
\* {id+1,id+1,MaxInt32-id} (the second empty for id = 1, the third empty or of
\* negative size for id >= MaxInt32); they do not overlap on either axis and
\* cover exactly the container ids 0..MaxInt32 but id, and the host ids
\* 1..MaxInt32 (0..id-1 and 1..id for an id above MaxInt32).
C2_ThreeRangesCoverInt ==
    Built => /\ C2_Amended(uidMaps, created.uid)
             /\ C2_Amended(gidMaps, created.gid)

\* tables were built for the two boundary ids, 1 and math.MaxInt32
C2_Witness ==
    /\ Built /\ created.uid = 1 /\ created.gid = MaxInt32
    /\ uidMaps.elems[2].Size = 0 /\ gidMaps.elems[3].Size = 0

\* C3: on a table CreateIDMapsForRoot built, a container id that translates to
\* the host translates back, without error, to itself.
C3_RoundTrip ==
    xlate.op = "roundTrip" => (~xlate.err /\ xlate.val = xlate.arg)

\* container root made the round trip through the requested host id
C3_Witness ==
    /\ Built /\ xlate.op = "roundTrip" /\ xlate.arg = 0
    /\ TranslateIDToHost(0, TableOf(xlate.which)) = Ok(RequestedID)
    /\ ~xlate.err /\ xlate.val = 0

\* C4 as stated: a nil table and an empty table both translate every id to
\* itself without error, and the root id they give is 0.
C4_NilAndEmptyAreIdentity ==
    LET t == TableOf(xlate.which) IN
    /\ (xlate.op \in {"toHost", "toContainer"} /\ (t.isNil \/ t.elems = <<>>)) =>
            (~xlate.err /\ xlate.val = xlate.arg)
    /\ (xlate.op = "root" /\ (uidMaps.isNil \/ uidMaps.elems = <<>>)
                          /\ (gidMaps.isNil \/ gidMaps.elems = <<>>)) =>
            (~xlate.err /\ xlate.val = 0 /\ xlate.arg = 0)

\* C5: on a non-empty table a translation gives HostID + (c - ContainerID) of
\* the first range whose interval [ContainerID, ContainerID+Size) holds c, and
\* an error, never c itself as a success, when no range holds it; the same on
\* the host axis for the translation to the container.
C5_FirstMatchOrError ==
    LET t == TableOf(xlate.which) IN
    (~t.isNil /\ t.elems # <<>>) =>
        /\ xlate.op = "toHost" =>
              LET hits == ContainerHits(t, xlate.arg) IN
              IF hits = {} THEN xlate.err
              ELSE LET m == t.elems[MinOf(hits)] IN
                   ~xlate.err /\ xlate.val = m.HostID + (xlate.arg - m.ContainerID)
        /\ xlate.op = "toContainer" =>
              LET hits == HostHits(t, xlate.arg) IN
              IF hits = {} THEN xlate.err
              ELSE LET m == t.elems[MinOf(hits)] IN
                   ~xlate.err /\ xlate.val = m.ContainerID + (xlate.arg - m.HostID)

\* two ranges hold the translated id and give different host ids: the first won
C5_Witness ==
    LET t == TableOf(xlate.which) IN
    /\ xlate.op = "toHost" /\ ~t.isNil /\ Len(t.elems) = 2
    /\ ContainerHits(t, xlate.arg) = {1, 2}
    /\ t.elems[1].HostID - t.elems[1].ContainerID # t.elems[2].HostID - t.elems[2].ContainerID
    /\ ~xlate.err
    /\ xlate.val = t.elems[1].HostID + (xlate.arg - t.elems[1].ContainerID)

-----------------------------------------------------------------------------
(* Claims on the --root option *)

ParseRan == setup.called /\ setup.parsed.err # "not called"

\* C6: CreateIDMapsForRoot fails and gives two nil tables whenever the uid or
\* the gid (or only one of them) is below 1, and setupRemappedRoot then fails
\* with that error and returns no table.
C6_InvalidRangeFailsSetup ==
    (ParseRan /\ setup.parsed.err = ""
              /\ (setup.parsed.userId < 1 \/ setup.parsed.groupId < 1)) =>
        /\ CreateIDMapsForRoot(setup.parsed.userId, setup.parsed.groupId)
             = [uidMaps |-> NilMap, gidMaps |-> NilMap, err |-> TRUE]
        /\ setup.err = "id maps"
        /\ uidMaps = NilMap /\ gidMaps = NilMap

\* the option gave a valid uid and an invalid gid, and setup failed on the tables
C6_Witness ==
    /\ ParseRan /\ setup.parsed.err = ""
    /\ setup.parsed.userId >= 1 /\ setup.parsed.groupId < 1
    /\ setup.err = "id maps" /\ uidMaps = NilMap /\ gidMaps = NilMap

\* the tokens of the grammar: a base-10 unsigned integer of the id width, or a name
IsUnsignedToken(tok) == tok # <<>> /\ AllDigits(tok) /\ DecimalValue(tok) <= MAXUINT32
IsNameToken(tok) ==
    tok # <<>> /\ \A i \in 1 .. Len(tok) : tok[i] \notin Digits \cup {"+", "-", ":"}

\* the resolution of C7 for an option of one or two tokens, each unsigned below
\* or at `top` or a name
ResolvedAsClaimed(top) ==
    LET idparts == Split(config.RemappedRoot)
        p == setup.parsed
        a == idparts[1]
        hasB == Len(idparts) = 2
        b == idparts[Len(idparts)]
        numeric(tok) == IsUnsignedToken(tok) /\ DecimalValue(tok) <= top
        uidR == IF numeric(a) THEN Ok(DecimalValue(a)) ELSE Lookup(passwd, a)
        gidR == IF hasB
                THEN IF numeric(b) THEN Ok(DecimalValue(b)) ELSE Lookup(group, b)
                ELSE IF numeric(a) THEN Ok(DecimalValue(a)) ELSE Lookup(group, a)
    IN  (Len(idparts) <= 2 /\ \A i \in 1 .. Len(idparts) :
                                  numeric(idparts[i]) \/ IsNameToken(idparts[i])) =>
            /\ numeric(a) => \A i \in 1 .. Len(p.lookups) : p.lookups[i][1] # "user"
            /\ IF uidR.err THEN p.err = "uid lookup" /\ p.quoted = a
               ELSE IF gidR.err THEN p.err = "gid lookup" /\ p.quoted = b
               ELSE p.err = "" /\ p.userId = uidR.val /\ p.groupId = gidR.val

\* C7 as stated: with tokens that are base-10 unsigned 32-bit integers or
\* names, a numeric A is the uid without any lookup (and the gid when alone), a
\* name A is looked up as a user (and as a group when alone), B is the gid or
\* is looked up as a group; three or more components fail, and a failed lookup
\* fails the parse naming the token.
C7_ParseResolvesUnsigned ==
    ParseRan =>
        /\ Len(Split(config.RemappedRoot)) >= 3 =>
              (setup.parsed.err = "invalid" /\ setup.parsed.quoted = config.RemappedRoot)
        /\ ResolvedAsClaimed(MAXUINT32)

\* the same resolution with the numeric tokens kept within math.MaxInt32, the
\* range strconv.ParseInt(.., 10, 32) accepts
ParseResolvesSigned ==
    ParseRan =>
        /\ Len(Split(config.RemappedRoot)) >= 3 =>
              (setup.parsed.err = "invalid" /\ setup.parsed.quoted = config.RemappedRoot)
        /\ ResolvedAsClaimed(MaxInt32)

\* C8: a privileged container is refused whenever the --root option is not
\* empty; setup fails whenever the option is not empty and the execdriver is
\* not the native one; with an empty option neither check fails and setup
\* returns nil tables without parsing and without a lookup.
C8_RemapExcludesPrivilegedAndOtherDrivers ==
    /\ verify.called =>
          (verify.err # "" <=> (verify.privileged /\ config.RemappedRoot # <<>>))
    /\ (setup.called /\ config.RemappedRoot # <<>> /\ config.ExecDriver # "native") =>
          (setup.err = "execdriver" /\ uidMaps = NilMap /\ gidMaps = NilMap)
    /\ (setup.called /\ config.RemappedRoot = <<>>) =>
          /\ setup.err = ""
          /\ uidMaps = NilMap /\ gidMaps = NilMap
          /\ setup.parsed = NotParsed

\* a privileged container was refused on a daemon that remaps root
C8_Witness ==
    /\ setup.called /\ setup.err = "" /\ config.RemappedRoot # <<>>
    /\ ~uidMaps.isNil
    /\ verify.called /\ verify.privileged /\ verify.err = "privileged"

-----------------------------------------------------------------------------
(* Claims on the root directory *)

\* the last setup found a root directory without "0.0" and returned no error
Migrated ==
    /\ ensure.called /\ ensure.err = ""
    /\ ensure.before.exists /\ NsRoot00 \notin DOMAIN ensure.before.top

ExpectedSubdir(option) ==
    IF option = <<>> THEN NsRoot00
    ELSE LET parts == Split(option) IN parts[1] \o <<".">> \o parts[Len(parts)]

LegacyIn(f) == { n \in DOMAIN f : f[n].origin = "legacy" }

\* a root directory left by an interrupted migration: "0.0" exists and entries
\* of the earlier installation are still at the top level
Mixed(dir) == dir.exists /\ NsRoot00 \in DOMAIN dir.top /\ LegacyIn(dir.top) # {}

\* the last setup started a migration and MoveDirToSubdir returned an error
Interrupted ==
    /\ ensure.called /\ ensure.err = "migrate"
    /\ ensure.before.exists /\ NsRoot00 \notin DOMAIN ensure.before.top

\* an interrupted migration leaves "0.0" in place, the entries renamed so far
\* under it and the others at the top level, none lost or changed
InterruptedLeavesMixed ==
    Interrupted =>
        /\ NsRoot00 \in DOMAIN rootDir.top
        /\ DOMAIN rootDir.sub = { ReadDir(DOMAIN ensure.before.top)[i] : i \in 1 .. ensure.moves }
        /\ DOMAIN rootDir.top = ((DOMAIN ensure.before.top) \ (DOMAIN rootDir.sub)) \cup { NsRoot00 }
        /\ \A n \in DOMAIN ensure.before.top :
              IF n \in DOMAIN rootDir.sub THEN rootDir.sub[n] = ensure.before.top[n]
              ELSE rootDir.top[n] = ensure.before.top[n]
        /\ ensure.moves < Cardinality(DOMAIN ensure.before.top) => Mixed(rootDir)

\* a setup on a mixed root renames nothing: the root stays mixed, with the same
\* entries at the top level and the same entries under "0.0"
NoRecovery ==
    Mixed(rootDir) =>
        /\ Mixed(rootDir')
        /\ ensure'.moves = 0
        /\ LegacyIn(rootDir'.top) = LegacyIn(rootDir.top)
        /\ \A n \in LegacyIn(rootDir.top) : rootDir'.top[n] = rootDir.top[n]
        /\ rootDir'.sub = rootDir.sub

\* C21: the migration is not recovered. A setup interrupted after it made
\* rootDir/0.0 (ReadDir or a rename failed, which leaves what a crash at that
\* point leaves) leaves the entries it renamed under 0.0 and the others at the
\* top level; every later setup finds "0.0", renames nothing, and leaves both
\* groups of entries where they are.
C21_InterruptedMigrationStaysMixed ==
    [](InterruptedLeavesMixed) /\ [][NoRecovery]_vars

\* a migration of a and b stopped after a; a later start of a daemon that
\* remaps root succeeded and b is still at the top level, a under 0.0
C21_Witness ==
    /\ ensure.called /\ ensure.err = "" /\ ensure.remap # <<>> /\ ensure.starts >= 2
    /\ Mixed(ensure.before) /\ DOMAIN ensure.before.sub = { <<"a">> }
    /\ ensure.moves = 0
    /\ DOMAIN rootDir.sub = { <<"a">> }
    /\ DOMAIN rootDir.top = { NsRoot00, <<"b">>, configRoot }
    /\ rootDir.top[<<"b">>].origin = "legacy"

-----------------------------------------------------------------------------
(* Claims on the layer applier *)

\* the positions of buf where a serialised response starts
ResponsesIn(buf) ==
    { i \in 1 .. Len(buf) : i + 3 <= Len(buf) /\ DecodeResponse(SubSeq(buf, i, i + 3)).err = "" }

\* the diagnostics fatal writes
Diagnostics == { "decode", "chroot", "tempdir", "unpack", "encode" }

DiagnosticsIn(buf) == { i \in 1 .. Len(buf) : buf[i] \in Diagnostics }

\* C12: in the child, unpack is invoked only after the options were decoded
\* and the chroot into the destination succeeded, and always against root "/";
\* when the decoding or the chroot fails the child exits non-zero, never
\* having invoked unpack and with no response on standard output.
C12_UnpackOnlyInsideChroot ==
    /\ \A i \in 1 .. Len(child.unpack) :
          /\ child.unpack[i].root = <<"/">>
          /\ child.unpack[i].options = "decoded" /\ child.opt = "valid"
          /\ child.unpack[i].chroot = child.arg
          /\ (child.by = "ApplyLayer" => child.arg = parent.dest)
    /\ (child.opt = "malformed" /\ child.pc \notin {"none", "decode"}) =>
          (child.pc = "exited" /\ "decode" \in { child.stderr[i] : i \in 1 .. Len(child.stderr) })
    /\ (child.pc = "exited" /\ (\E i \in 1 .. Len(child.stderr) :
                                    child.stderr[i] \in {"decode", "chroot"})) =>
          /\ child.exit # 0
          /\ child.unpack = <<>>
          /\ ResponsesIn(child.stdout) = {}

\* the child ApplyLayer started unpacked a layer inside the destination
C12_Witness ==
    /\ child.by = "ApplyLayer" /\ child.pc = "exited" /\ child.exit = 0
    /\ Len(child.unpack) = 1 /\ child.unpack[1].chroot = <<"/", "d">>
    /\ child.root = <<"/", "d">>

\* an error text holds the buffer as it was captured
Embeds(text, buf) ==
    \E i \in 1 .. (Len(text) + 1) :
        i + Len(buf) - 1 <= Len(text) /\ SubSeq(text, i, i + Len(buf) - 1) = buf

\* C13 as stated: ApplyLayer returns the size the child reported exactly when
\* the child exited 0 and its standard output parsed as a response; on a
\* non-zero exit and on an unparseable standard output it returns size 0 and
\* an error that embeds the standard error captured from the child, and it
\* starts the child once.
C13_ErrorsEmbedStderr ==
    (parent.pc = "done" /\ parent.spawned > 0) =>
        /\ parent.spawned = 1
        /\ parent.err = "" <=> (child.exit = 0 /\ DecodeResponse(child.stdout).err = "")
        /\ parent.err = "" => (parent.size = child.size /\ ~child.unpackErr)
        /\ parent.err # "" => (parent.size = 0 /\ Embeds(parent.text, child.stderr))

\* the same with the standard error embedded only in the error of a non-zero
\* exit, as lines 87-96 write it
ApplyLayerResultAsCoded ==
    (parent.pc = "done" /\ parent.spawned > 0) =>
        /\ parent.spawned = 1
        /\ parent.err = "" <=> (child.exit = 0 /\ DecodeResponse(child.stdout).err = "")
        /\ parent.err = "" => (parent.size = child.size /\ ~child.unpackErr)
        /\ parent.err # "" => parent.size = 0
        /\ child.exit # 0 => Embeds(parent.text, child.stderr)

-----------------------------------------------------------------------------
(* Claims on the Driver *)

\* the positions of log that hold one of the calls
CallsIn(log, names) == { i \in 1 .. Len(log) : log[i] \in names }

MountCalls == { "MountDevice", "MountDevice failed" }
UnmountCalls == { "UnmountDevice", "UnmountDevice failed" }
DeleteCalls == { "DeleteDevice", "DeleteDevice failed" }

\* C14: Remove(id) on an id HasDevice does not know returns no error and does
\* nothing: no DeleteDevice, MountDevice or UnmountDevice call, and the
\* directory home/mnt/<id> as it was.
C14_RemoveOfAbsentDeviceIsNoOp ==
    (last.op = "Remove" /\ last.id \notin last.before.devices) =>
        /\ last.err = ""
        /\ CallsIn(last.log, DeleteCalls \cup MountCalls \cup UnmountCalls) = {}
        /\ last.log = <<>>
        /\ drv.mp[last.id] = last.before.mp[last.id]
        /\ drv = last.before

\* Remove was called on a device that does not exist and whose mountpoint
\* directory an earlier, failed Get had made
C14_Witness ==
    /\ last.op = "Remove" /\ last.id \notin last.before.devices
    /\ last.before.mp[last.id].exists
    /\ last.err = "" /\ drv.mp[last.id].exists

\* C15: a Get(id) that succeeds on an existing device returns
\* home/mnt/<id>/rootfs and calls MountDevice exactly once; a Put(id) calls
\* UnmountDevice exactly once; so while the Get and Put calls on an id are
\* successful Get/Put pairs its mount and unmount calls balance and no mount
\* is active after each pair.
C15_GetPutBalance ==
    /\ (last.op = "Get" /\ last.err = "") =>
          /\ last.id \in last.before.devices
          /\ last.path = << "home", "mnt", last.id, "rootfs" >>
          /\ Cardinality(CallsIn(last.log, MountCalls)) = 1
          /\ CallsIn(last.log, UnmountCalls) = {}
          /\ drv.calls[last.id].mount = last.before.calls[last.id].mount + 1
          /\ drv.active[last.id] = last.before.active[last.id] + 1
    /\ last.op = "Put" =>
          /\ Cardinality(CallsIn(last.log, UnmountCalls)) = 1
          /\ CallsIn(last.log, MountCalls) = {}
          /\ drv.calls[last.id].unmount = last.before.calls[last.id].unmount + 1
    /\ \A i \in Ids :
          /\ hist.pairs[i] = "pairs" =>
                (drv.calls[i].mount = drv.calls[i].unmount /\ drv.active[i] = 0)
          /\ hist.pairs[i] = "open" => drv.calls[i].mount = drv.calls[i].unmount + 1

\* a successful Get was followed by a successful Put
C15_Witness ==
    /\ last.op = "Put" /\ last.err = "" /\ hist.pairs[last.id] = "pairs"
    /\ drv.calls[last.id].mount >= 1
    /\ drv.calls[last.id].mount = drv.calls[last.id].unmount
    /\ drv.active[last.id] = 0 /\ last.before.active[last.id] = 1

C17_CleanupErrorPriority ==
    last.op = "Cleanup" =>
        /\ last.log = << "Shutdown", "Unmount" >>
        /\ ~last.fail.umount => ~drv.homeMounted
        /\ last.err = IF last.fail.at = "shutdown" THEN "shutdown"
                      ELSE IF last.fail.umount THEN "unmount home"
                      ELSE ""

\* Shutdown failed, home was unmounted all the same, and the error is Shutdown's
C17_Witness ==
    /\ last.op = "Cleanup" /\ last.fail.at = "shutdown" /\ ~last.fail.umount
    /\ last.before.homeMounted /\ ~drv.homeMounted
    /\ last.err = "shutdown"

\* C19: Remove(id) on an existing device calls DeleteDevice(id) first and
\* removes home/mnt/<id> only after it succeeded; when DeleteDevice fails its
\* error is returned and the directory stays; a "does not exist" error of the
\* removal is not returned, any other error of it is.
C19_RemoveDeletesThenRemovesDir ==
    (last.op = "Remove" /\ last.id \in last.before.devices) =>
        /\ Len(last.log) >= 1 /\ last.log[1] \in DeleteCalls
        /\ last.log[1] = "DeleteDevice failed" =>
              /\ last.err = "delete" /\ Len(last.log) = 1
              /\ drv.mp[last.id] = last.before.mp[last.id]
              /\ last.id \in drv.devices
        /\ last.log[1] = "DeleteDevice" =>
              /\ Len(last.log) = 2
              /\ last.log[2] \in {"RemoveAll", "RemoveAll not exist", "RemoveAll failed"}
              /\ last.id \notin drv.devices
              /\ last.log[2] = "RemoveAll" => (last.err = "" /\ ~drv.mp[last.id].exists)
              /\ last.log[2] = "RemoveAll not exist" => last.err = ""
              /\ last.log[2] = "RemoveAll failed" =>
                    (last.err = "removeall" /\ drv.mp[last.id] = last.before.mp[last.id])

\* the device of an id that had been mounted and released was deleted and its
\* mountpoint directory removed
C19_Witness ==
    /\ last.op = "Remove" /\ last.id \in last.before.devices
    /\ last.before.mp[last.id].exists
    /\ last.log = << "DeleteDevice", "RemoveAll" >>
    /\ last.err = "" /\ ~drv.mp[last.id].exists /\ last.id \notin drv.devices

\* what belongs to id i in world w
Subtree(w, i) ==
    [has |-> i \in w.devices, active |-> w.active[i], calls |-> w.calls[i],
     rootfs |-> w.rootfs[i], idFile |-> w.idFile[i], mp |-> w.mp[i]]

\* the first n operations of prog run for id i from world w, each to its
\* return, with no other caller
RECURSIVE AloneRun(_, _, _, _)
AloneRun(w, i, prog, n) ==
    IF n = 0 THEN [w |-> w, results |-> <<>>]
    ELSE LET sofar == AloneRun(w, i, prog, n - 1)
             r == RunOp(sofar.w, Proc(i, prog[n][1], prog[n][2]))
         IN  [w |-> r.w, results |-> Append(sofar.results, Outcome(r.p))]

\* home/mnt after the programs of i and then of j ran one after the other
SerialMnt(i, j) ==
    LET first == AloneRun(start, i, procs[i].prog, Len(procs[i].prog))
    IN  AloneRun(first.w, j, procs[j].prog, Len(procs[j].prog)).w.mnt

\* C18: operations on distinct ids do not interfere: under every interleaving
\* of their calls each operation returns what it returns when the operations
\* of its id run alone, after each operation the subtree of its id (device,
\* mount state, mountpoint directory and owner, rootfs, id file) is what it is
\* then, and home/mnt, which concurrent Gets create and chown together, ends
\* as it does when the callers run one after the other.
C18_DistinctIdsDoNotInterfere ==
    /\ \A i \in Ids :
          LET alone == AloneRun(start, i, procs[i].prog, Len(procs[i].results)) IN
          /\ procs[i].results = alone.results
          /\ procs[i].p.pc = "done" => Subtree(drv, i) = Subtree(alone.w, i)
    /\ (\A i \in Ids : procs[i].k > Len(procs[i].prog)) =>
          drv.mnt \in { SerialMnt("x", "y"), SerialMnt("y", "x") }

\* two Gets ran interleaved, both having found home/mnt absent before either
\* made it, and both returned their rootfs
C18_Witness ==
    /\ \A i \in Ids : /\ procs[i].k > Len(procs[i].prog)
                       /\ procs[i].prog = << << "Get", NoFail >> >>
                       /\ procs[i].results[1].err = ""
                       /\ drv.active[i] = 1 /\ drv.idFile[i] = FileOf(i)
    /\ ~procs["x"].p.seen /\ ~procs["y"].p.seen
    /\ drv.mnt = DirOf(1, 2)

=============================================================================
